---- MODULE Spec2Model ----
(***************************************************************************)
(* A model of src/bakefile.rs: parsing a bakefile (normalising the two     *)
(* forms of a task, then check_dependencies) and environment(), the        *)
(* resolution of a task's variables against the process environment.       *)
(*                                                                         *)
(* A HashMap is a function on its key set.  Rust's HashMap iterates in an  *)
(* order that depends on the per-map random hasher state, so every         *)
(* iteration over a HashMap takes an arbitrary permutation of its keys.    *)
(* A String produced by format! is the sequence of its pieces.             *)
(***************************************************************************)
EXTENDS Integers, Sequences, FiniteSets, TLC

\* ------------------------------------------------------------------ bounds

\* The largest number of tasks a document declares.
MaxTasks == 2
\* The largest number of dependency names a document declares, all its tasks
\* together.
MaxDeps == 2
\* The largest number of variables a task's env declares.
MaxEnvVars == 2

\* ------------------------------------------------- Option, Result, HashMap

None == <<>>
Some(v) == <<v>>
is_some(o) == o # <<>>
unwrap(o) == o[1]
unwrap_or(o, d) == IF is_some(o) THEN o[1] ELSE d

Ok(v) == [ok |-> TRUE, val |-> v]
Err(e) == [ok |-> FALSE, err |-> e]

EmptyMap == [k \in {} |-> k]
contains_key(m, k) == k \in DOMAIN m
insert(m, k, v) == [j \in DOMAIN m \cup {k} |-> IF j = k THEN v ELSE m[j]]

\* The orders in which an iteration may visit the keys S of a HashMap.
Perms(S) ==
  {p \in [1..Cardinality(S) -> S] : \A i, j \in 1..Cardinality(S) : p[i] = p[j] => i = j}

\* The sequences over S of length at most n.
BSeq(S, n) == UNION {[1..m -> S] : m \in 0..n}

\* --------------------------------------------------------------- constants

DEFAULT_LOCATION == "/scratch"
DEFAULT_USER == "root"

\* A default of false for cache.
default_task_cache_off == FALSE

default_task_cache == TRUE
default_task_location == DEFAULT_LOCATION
default_task_user == DEFAULT_USER

\* ------------------------------------------------------------------ inputs

TaskNames == {"", "build", "test"}
DepNames == {"build", "test", "do_thing"}
Commands == {"cargo build"}
VarNames == {"foo1", "foo2", "foo3"}
LiveValues == {"", "baz"}
Fallbacks == {"bar"}

\* A task's env: at most MaxEnvVars variables, each required (None) or with
\* a fallback.
EnvMaps ==
  UNION {[S -> {None} \cup {Some(f) : f \in Fallbacks}] :
           S \in {T \in SUBSET VarNames : Cardinality(T) <= MaxEnvVars}}

\* A full-record task as written: each field is present (Some) or absent.
Written(deps, cache, envm, paths, location, user, command) ==
  [dependencies |-> deps, cache |-> cache, env |-> envm, paths |-> paths,
   location |-> location, user |-> user, command |-> command]

\* The full records: one that sets nothing, those that set only command, and
\* those that set only dependencies.
WrittenRecords ==
     {Written(None, None, None, None, None, None, c) :
        c \in {None} \cup {Some(s) : s \in Commands}}
  \cup {Written(Some(d), None, None, None, None, None, None) :
        d \in BSeq(DepNames, MaxDeps) \ {<<>>}}

\* A task entry of the document: a bare command string or a full record.
Short(s) == [variant |-> "Short", command |-> s]
Long(w) == [variant |-> "Long", written |-> w]

Entries == {Short(s) : s \in Commands} \cup {Long(w) : w \in WrittenRecords}

\* The number of dependency names an entry declares.
DeclaredDeps(e) ==
  IF e.variant = "Long" /\ is_some(e.written.dependencies)
    THEN Len(unwrap(e.written.dependencies))
    ELSE 0

RECURSIVE TotalDeps(_, _)
TotalDeps(t, S) ==
  IF S = {} THEN 0
  ELSE LET k == CHOOSE x \in S : TRUE
       IN  DeclaredDeps(t[k]) + TotalDeps(t, S \ {k})

\* The schema-valid documents: image, optional default, at most MaxTasks
\* tasks declaring at most MaxDeps dependency names in all.
Documents ==
  {[image |-> "ubuntu:18.04", default |-> d, tasks |-> t] :
     d \in {None, Some("build"), Some("do_thing")},
     t \in {u \in UNION {[S -> Entries] :
                           S \in {T \in SUBSET TaskNames : Cardinality(T) <= MaxTasks}} :
              TotalDeps(u, DOMAIN u) <= MaxDeps}}

\* ------------------------------------------------------------------- state

VARIABLES
  text,        \* the document handed to parse
  last,        \* the result of the latest parse of text, None before it
  prev,        \* the result of the parse of text before the latest
  violations,  \* check_dependencies' violations map at its latest return
  procEnv,     \* the process environment: name -> value, for defined names
  envCall      \* the latest call of environment: task, environment, result

vars == <<text, last, prev, violations, procEnv, envCall>>

\* ----------------------------------------------------------- normalisation

\* serde's derived Deserialize for Task: absent fields take their defaults.
DeserializeTask(w) ==
  [dependencies |-> unwrap_or(w.dependencies, <<>>),
   cache        |-> unwrap_or(w.cache, default_task_cache),
   env          |-> unwrap_or(w.env, EmptyMap),
   paths        |-> unwrap_or(w.paths, <<>>),
   location     |-> unwrap_or(w.location, default_task_location),
   user         |-> unwrap_or(w.user, default_task_user),
   command      |-> w.command]

\* serde's untagged RawTask: a string is Short, a mapping is Long(Task).
DeserializeRawTask(e) ==
  IF e.variant = "Short"
    THEN [variant |-> "Short", command |-> e.command]
    ELSE [variant |-> "Long", task |-> DeserializeTask(e.written)]

\* serde_yaml::from_str into RawBakefile.
from_str(doc) ==
  [image |-> doc.image, default |-> doc.default,
   tasks |-> [k \in DOMAIN doc.tasks |-> DeserializeRawTask(doc.tasks[k])]]

\* The match of parse: the canonical Task of one RawTask.
NormalizeTask(v) ==
  IF v.variant = "Short"
    THEN [dependencies |-> <<>>,
          cache        |-> TRUE,
          env          |-> EmptyMap,
          paths        |-> <<>>,
          location     |-> DEFAULT_LOCATION,
          user         |-> DEFAULT_USER,
          command      |-> Some(v.command)]
    ELSE v.task

\* .collect() into a HashMap: insert the pairs in the order they come.
RECURSIVE Collect(_)
Collect(pairs) ==
  IF pairs = <<>> THEN EmptyMap
  ELSE LET n == Len(pairs)
       IN  insert(Collect(SubSeq(pairs, 1, n - 1)), pairs[n][1], pairs[n][2])

\* The iteration skips its first entry.
NormalizeTasks_skipFirst(rawTasks, iterOrder) ==
  Collect([i \in 1..(Len(iterOrder) - 1) |->
             <<iterOrder[i + 1], NormalizeTask(rawTasks[iterOrder[i + 1]])>>])

\* Entries with an empty name are left out.
NormalizeTasks_nonEmpty(rawTasks, iterOrder) ==
  Collect(SelectSeq([i \in 1..Len(iterOrder) |->
                       <<iterOrder[i], NormalizeTask(rawTasks[iterOrder[i]])>>],
                    LAMBDA pair : pair[1] # ""))

\* raw_bakefile.tasks.iter().map(..).collect(), iterating in iterOrder.
NormalizeTasks(rawTasks, iterOrder) ==
  Collect([i \in 1..Len(iterOrder) |->
             <<iterOrder[i], NormalizeTask(rawTasks[iterOrder[i]])>>])

Bakefile(raw, iterOrder) ==
  [image |-> raw.image, default |-> raw.default,
   tasks |-> NormalizeTasks(raw.tasks, iterOrder)]

\* ------------------------------------------------------ check_dependencies

\* The default task is not checked.
valid_default_unchecked(bakefile) == TRUE

\* [tag:valid_default]
valid_default(bakefile) ==
  IF is_some(bakefile.default)
    THEN contains_key(bakefile.tasks, unwrap(bakefile.default))
    ELSE TRUE

\* A task that depends on itself is a violation too.
IsViolation_orSelf(bakefile, task, dependency) ==
  ~contains_key(bakefile.tasks, dependency) \/ dependency = task

\* The test on one dependency of one task: it names no task.
IsViolation(bakefile, task, dependency) ==
  ~contains_key(bakefile.tasks, dependency)

\* violations.entry(task).or_insert_with(|| vec![]).push(dependency)
PushViolation(viol, task, dependency) ==
  insert(viol, task,
         Append(IF contains_key(viol, task) THEN viol[task] ELSE <<>>, dependency))

\* The inner loop stops at the first missing name.
RECURSIVE ScanDependencies_stopAtFirst(_, _, _, _)
ScanDependencies_stopAtFirst(bakefile, task, i, viol) ==
  LET dependencies == bakefile.tasks[task].dependencies
  IN  IF i > Len(dependencies) THEN viol
      ELSE IF ~contains_key(bakefile.tasks, dependencies[i])
        THEN insert(viol, task, <<dependencies[i]>>)
      ELSE ScanDependencies_stopAtFirst(bakefile, task, i + 1, viol)

\* The inner loop, from the i-th dependency of task on.
RECURSIVE ScanDependencies(_, _, _, _)
ScanDependencies(bakefile, task, i, viol) ==
  LET dependencies == bakefile.tasks[task].dependencies
  IN  IF i > Len(dependencies) THEN viol
      ELSE ScanDependencies(bakefile, task, i + 1,
             IF IsViolation(bakefile, task, dependencies[i])
               THEN PushViolation(viol, task, dependencies[i])
               ELSE viol)

\* The outer loop over bakefile.tasks.keys(), visited in keysOrder.
RECURSIVE ScanTasks(_, _, _, _)
ScanTasks(bakefile, keysOrder, i, viol) ==
  IF i > Len(keysOrder) THEN viol
  ELSE ScanTasks(bakefile, keysOrder, i + 1,
                 ScanDependencies(bakefile, keysOrder[i], 1, viol))

\* The backquote character of the messages (a TLA+ string cannot hold it).
QuoteMark == "'"

\* format!("{}", task) between backquotes
Quote(name) == <<QuoteMark, name, QuoteMark>>

\* format::series: the items joined by commas.
RECURSIVE series(_)
series(items) ==
  IF items = <<>> THEN <<>>
  ELSE IF Len(items) = 1 THEN items[1]
  ELSE series(SubSeq(items, 1, Len(items) - 1)) \o <<", ">> \o items[Len(items)]

\* The format! of one entry of violations: the quoted task, then its quoted
\* dependencies as a series between parentheses.
ViolationItem(task, dependencies) ==
  Quote(task) \o <<" (">>
    \o series([i \in 1..Len(dependencies) |-> Quote(dependencies[i])])
    \o <<")">>

\* violations.iter().map(..), the map visited in violOrder.
violations_series(viol, violOrder) ==
  series([i \in 1..Len(violOrder) |-> ViolationItem(violOrder[i], viol[violOrder[i]])])

\* With violations, the default task goes unreported.
Report_dependenciesOnly(bakefile, viol, violOrder) ==
  IF DOMAIN viol # {}
    THEN Err(<<"The following tasks have invalid dependencies: ">>
               \o violations_series(viol, violOrder) \o <<".">>)
    ELSE IF ~valid_default(bakefile)
           THEN Err(<<"The default task ">> \o Quote(unwrap(bakefile.default))
                      \o <<" does not exist.">>)
           ELSE Ok(<<>>)

\* The outcome of check_dependencies once the scan has filled viol.
Report(bakefile, viol, violOrder) ==
  IF DOMAIN viol # {}
    THEN IF valid_default(bakefile)
           THEN Err(<<"The following tasks have invalid dependencies: ">>
                      \o violations_series(viol, violOrder) \o <<".">>)
           ELSE Err(<<"The default task ">> \o Quote(unwrap(bakefile.default))
                      \o <<" does not exist, and the following tasks have invalid dependencies: ">>
                      \o violations_series(viol, violOrder) \o <<".">>)
    ELSE IF ~valid_default(bakefile)
           THEN Err(<<"The default task ">> \o Quote(unwrap(bakefile.default))
                      \o <<" does not exist.">>)
           ELSE Ok(<<>>)

check_dependencies(bakefile, keysOrder, violOrder) ==
  Report(bakefile, ScanTasks(bakefile, keysOrder, 1, EmptyMap), violOrder)

\* ------------------------------------------------------------------- parse

parse(bakefile_data, iterOrder, keysOrder, violOrder) ==
  LET bakefile == Bakefile(from_str(bakefile_data), iterOrder)
      checked  == check_dependencies(bakefile, keysOrder, violOrder)
  IN  IF checked.ok THEN Ok(bakefile) ELSE Err(checked.err)

\* ------------------------------------------------------------- environment

\* A value of the process environment: a Unicode string, or bytes that are
\* not valid Unicode.
Unicode(s) == [unicode |-> TRUE, s |-> s]
NotUnicode == [unicode |-> FALSE, s |-> ""]

ProcessEnvironments ==
  UNION {[S -> {Unicode(s) : s \in LiveValues} \cup {NotUnicode}] : S \in SUBSET VarNames}

\* env::var: Ok for a name defined with a Unicode value, Err(NotPresent) or
\* Err(NotUnicode) otherwise.
var(penv, arg) ==
  IF ~contains_key(penv, arg) THEN Err("NotPresent")
  ELSE IF ~penv[arg].unicode THEN Err("NotUnicode")
  ELSE Ok(penv[arg].s)

\* An empty live value counts as no value.
ResolveVariable_emptyIsUnset(acc, penv, arg, default) ==
  LET maybe_var == var(penv, arg)
      live == maybe_var.ok /\ maybe_var.val # ""
  IN  IF is_some(default)
        THEN [acc EXCEPT !.result =
                insert(@, arg, IF live THEN maybe_var.val ELSE unwrap(default))]
      ELSE IF maybe_var.ok
        THEN [acc EXCEPT !.result = insert(@, arg, maybe_var.val)]
      ELSE [acc EXCEPT !.violations = Append(@, arg)]

\* Only the first missing variable is recorded.
ResolveVariable_firstOnly(acc, penv, arg, default) ==
  LET maybe_var == var(penv, arg)
  IN  IF is_some(default)
        THEN [acc EXCEPT !.result =
                insert(@, arg, IF maybe_var.ok THEN maybe_var.val ELSE unwrap(default))]
      ELSE IF maybe_var.ok
        THEN [acc EXCEPT !.result = insert(@, arg, maybe_var.val)]
      ELSE [acc EXCEPT !.violations = IF @ = <<>> THEN <<arg>> ELSE @]

\* The body of the loop of environment for one (arg, default) of task.env.
ResolveVariable(acc, penv, arg, default) ==
  LET maybe_var == var(penv, arg)
  IN  IF is_some(default)
        THEN [acc EXCEPT !.result =
                insert(@, arg, IF maybe_var.ok THEN maybe_var.val ELSE unwrap(default))]
      ELSE IF maybe_var.ok
        THEN [acc EXCEPT !.result = insert(@, arg, maybe_var.val)]
      ELSE [acc EXCEPT !.violations = Append(@, arg)]

\* for (arg, default) in &task.env, visited in envOrder.
RECURSIVE EnvironmentLoop(_, _, _, _)
EnvironmentLoop(task, penv, envOrder, n) ==
  IF n = 0 THEN [violations |-> <<>>, result |-> EmptyMap]
  ELSE ResolveVariable(EnvironmentLoop(task, penv, envOrder, n - 1), penv,
                       envOrder[n], task.env[envOrder[n]])

environment(task, penv, envOrder) ==
  LET acc == EnvironmentLoop(task, penv, envOrder, Len(envOrder))
  IN  IF acc.violations # <<>> THEN Err(acc.violations) ELSE Ok(acc.result)

\* The tasks handed to environment: as the tests build them, env apart.
EnvTasks ==
  {[dependencies |-> <<>>, cache |-> TRUE, env |-> e, paths |-> <<>>,
    location |-> DEFAULT_LOCATION, user |-> DEFAULT_USER, command |-> None] :
     e \in EnvMaps}

\* ----------------------------------------------------------------- actions

EmptyDocument == [image |-> "ubuntu:18.04", default |-> None, tasks |-> EmptyMap]

\* One call of parse on the document; every HashMap iteration takes some order.
\* The document is parsed twice.
Parse ==
  /\ prev = None
  /\ \E iterOrder \in Perms(DOMAIN text.tasks) :
       LET bakefile == Bakefile(from_str(text), iterOrder)
       IN  \E keysOrder \in Perms(DOMAIN bakefile.tasks) :
             LET viol == ScanTasks(bakefile, keysOrder, 1, EmptyMap)
             IN  \E violOrder \in Perms(DOMAIN viol) :
                   /\ last' = Some(parse(text, iterOrder, keysOrder, violOrder))
                   /\ prev' = last
                   /\ violations' = viol
                   /\ UNCHANGED <<text, procEnv, envCall>>

\* One call of environment on a task, against the process environment.
Environment ==
  \E task \in EnvTasks :
    \E envOrder \in Perms(DOMAIN task.env) :
      /\ envCall' = Some([task |-> task, result |-> environment(task, procEnv, envOrder)])
      /\ UNCHANGED <<text, last, prev, violations, procEnv>>

InitParse ==
  /\ text \in Documents
  /\ last = None
  /\ prev = None
  /\ violations = EmptyMap
  /\ procEnv = EmptyMap
  /\ envCall = None

InitEnv ==
  /\ text = EmptyDocument
  /\ last = None
  /\ prev = None
  /\ violations = EmptyMap
  /\ procEnv \in ProcessEnvironments
  /\ envCall = None

NextParse == Parse
NextEnv == Environment

SpecParse == InitParse /\ [][NextParse]_vars
SpecEnv == InitEnv /\ [][NextEnv]_vars

\* ------------------------------------------------- what the document says

\* The dependency names task k of the document declares, in order.
Declared(k) ==
  LET e == text.tasks[k]
  IN  IF e.variant = "Long" /\ is_some(e.written.dependencies)
        THEN unwrap(e.written.dependencies)
        ELSE <<>>

IsMissingName(d) == d \notin DOMAIN text.tasks

\* The declared dependency names of task k that name no task, in order.
Missing(k) == SelectSeq(Declared(k), IsMissingName)

\* The tasks with at least one missing dependency name.
Offenders == {k \in DOMAIN text.tasks : Missing(k) # <<>>}

AllDependenciesExist == Offenders = {}

DefaultExists ==
  text.default = None \/ unwrap(text.default) \in DOMAIN text.tasks

\* The number of times name occurs in the sequence q.
Occurrences(name, q) == Cardinality({i \in 1..Len(q) : q[i] = name})

Parsed == is_some(last)
Result == unwrap(last)

\* ------------------------------------------------------------------ claims

\* C1: parse returns Ok exactly when every declared dependency name is a key
\* of tasks and default is absent or a key of tasks; otherwise it returns Err
\* and no Document; every Document returned has both properties.
C1_ParseOkIffReferencesResolve ==
  Parsed =>
    /\ Result.ok <=> (AllDependenciesExist /\ DefaultExists)
    /\ ~Result.ok => DOMAIN Result = {"ok", "err"}
    /\ Result.ok =>
         LET doc == Result.val
         IN  /\ \A k \in DOMAIN doc.tasks :
                  \A i \in 1..Len(doc.tasks[k].dependencies) :
                    doc.tasks[k].dependencies[i] \in DOMAIN doc.tasks
             /\ doc.default = None \/ unwrap(doc.default) \in DOMAIN doc.tasks

\* A document with a default and a dependency was accepted.
C1_Witness ==
  /\ Parsed /\ Result.ok
  /\ is_some(text.default)
  /\ \E k \in DOMAIN text.tasks : Declared(k) # <<>>

\* C2: the violations are complete and exact: one entry for each task with a
\* missing dependency name and for no other task, the entry listing all the
\* missing names of the task in the order of its dependencies list; the
\* message enumerates exactly these entries.
C2_ViolationsCompleteAndExact ==
  Parsed =>
    /\ DOMAIN violations = Offenders
    /\ \A k \in Offenders : violations[k] = Missing(k)
    /\ Offenders # {} =>
         /\ ~Result.ok
         /\ \E order \in Perms(Offenders) :
              LET listed == series([i \in 1..Len(order) |->
                                      ViolationItem(order[i], Missing(order[i]))])
                             \o <<".">>
                  msg == Result.err
              IN  /\ Len(msg) > Len(listed)
                  /\ SubSeq(msg, Len(msg) - Len(listed) + 1, Len(msg)) = listed

\* A task with two different missing names was reported.
C2_Witness ==
  /\ Parsed /\ ~Result.ok
  /\ \E k \in DOMAIN violations :
       /\ Len(violations[k]) = 2
       /\ violations[k][1] # violations[k][2]

\* Two tasks were reported, the scan not stopping at the first.
C2_WitnessTwoTasks ==
  /\ Parsed /\ ~Result.ok
  /\ Cardinality(DOMAIN violations) = 2

\* What a message says.
SaysDefaultMissing(msg) ==
  /\ Len(msg) >= 5
  /\ SubSeq(msg, 1, 4) = <<"The default task ">> \o Quote(unwrap(text.default))
  /\ msg[5] \in {" does not exist.",
                 " does not exist, and the following tasks have invalid dependencies: "}

ListsOffendingTasks(msg) ==
  \E i \in 1..Len(msg) :
    msg[i] \in {"The following tasks have invalid dependencies: ",
                " does not exist, and the following tasks have invalid dependencies: "}

\* C3: the one diagnostic says the default task does not exist, naming it,
\* exactly when default is present and no key of tasks, and lists offending
\* tasks exactly when a dependency is missing; an invalid default alone gives
\* the message that names only the default.
C3_DiagnosticMatchesFacts ==
  (Parsed /\ ~Result.ok) =>
    /\ (is_some(text.default) /\ SaysDefaultMissing(Result.err)) <=> ~DefaultExists
    /\ ListsOffendingTasks(Result.err) <=> ~AllDependenciesExist
    /\ (~DefaultExists /\ AllDependenciesExist) =>
         Result.err = <<"The default task ">> \o Quote(unwrap(text.default))
                        \o <<" does not exist.">>

\* An invalid default together with a missing dependency was reported.
C3_Witness ==
  /\ Parsed /\ ~Result.ok
  /\ ~DefaultExists /\ ~AllDependenciesExist

\* C6: a shorthand entry s gives the Task that the full record setting only
\* command = s gives: command Some(s), no dependencies, cache true, empty
\* env, no paths, location /scratch, user root.
C6_ShorthandEqualsFullRecord ==
  (Parsed /\ Result.ok) =>
    \A k \in DOMAIN text.tasks :
      text.tasks[k].variant = "Short" =>
        LET s == text.tasks[k].command
        IN  /\ Result.val.tasks[k] =
                 DeserializeTask(Written(None, None, None, None, None, None, Some(s)))
            /\ Result.val.tasks[k] =
                 [dependencies |-> <<>>, cache |-> TRUE, env |-> EmptyMap,
                  paths |-> <<>>, location |-> "/scratch", user |-> "root",
                  command |-> Some(s)]

\* A document with the same command in both forms was parsed.
C6_Witness ==
  /\ Parsed /\ Result.ok
  /\ \E j, k \in DOMAIN text.tasks :
       /\ text.tasks[j].variant = "Short"
       /\ text.tasks[k] =
            Long(Written(None, None, None, None, None, None, Some(text.tasks[j].command)))
       /\ Result.val.tasks[j] = Result.val.tasks[k]

\* C7: two invocations on the same document that fail return the same
\* diagnostic text.
C7_SameDiagnosticEveryTime ==
  (is_some(prev) /\ Parsed /\ ~unwrap(prev).ok /\ ~Result.ok) =>
    unwrap(prev).err = Result.err

\* C8: two parses of the same document that succeed give Documents that are
\* equal, image, default and tasks (as a mapping).
C8_ParseTwiceSameDocument ==
  (is_some(prev) /\ Parsed) =>
    /\ unwrap(prev).ok <=> Result.ok
    /\ Result.ok =>
         /\ unwrap(prev).val.image = Result.val.image
         /\ unwrap(prev).val.default = Result.val.default
         /\ unwrap(prev).val.tasks = Result.val.tasks

\* A document of two tasks was parsed twice with success.
C8_Witness ==
  /\ is_some(prev) /\ Parsed /\ Result.ok /\ unwrap(prev).ok
  /\ Cardinality(DOMAIN Result.val.tasks) = 2

\* C9, as claimed: no Document returned by parse has a task named by the
\* empty string.
C9_NoEmptyTaskName ==
  (Parsed /\ Result.ok) => "" \notin DOMAIN Result.val.tasks

\* C9, amended: the keys of tasks of a Document returned by parse are exactly
\* the task names the document declares, the empty string among them when the
\* document declares a task of that name.
C9_KeysAreTheDeclaredNames ==
  (Parsed /\ Result.ok) => DOMAIN Result.val.tasks = DOMAIN text.tasks

\* A document with a task named by the empty string was accepted.
C9_Witness ==
  /\ Parsed /\ Result.ok
  /\ "" \in DOMAIN Result.val.tasks
  /\ Cardinality(DOMAIN Result.val.tasks) = 2

\* C10: a name that is a key of tasks is never recorded as a violation, so
\* self-dependencies, repeated dependencies and cycles are accepted; a
\* missing name is recorded for a task as many times as the task lists it.
C10_ExistenceIsTheOnlyCheck ==
  Parsed =>
    /\ \A k \in DOMAIN violations :
         \A i \in 1..Len(violations[k]) : violations[k][i] \notin DOMAIN text.tasks
    /\ (AllDependenciesExist /\ DefaultExists) => Result.ok
    /\ \A k \in DOMAIN text.tasks :
         \A name \in DepNames \ DOMAIN text.tasks :
           Occurrences(name, IF k \in DOMAIN violations THEN violations[k] ELSE <<>>)
             = Occurrences(name, Declared(k))

\* A document whose tasks depend on each other, or on themselves, or twice
\* on the same task, was accepted.
C10_Witness ==
  /\ Parsed /\ Result.ok
  /\ \E j, k \in DOMAIN text.tasks :
       /\ Occurrences(k, Declared(j)) >= 1
       /\ Occurrences(j, Declared(k)) >= 1

\* ------------------------------------------------- claims on environment

Called == is_some(envCall)
CallTask == unwrap(envCall).task
CallResult == unwrap(envCall).result

\* The process environment defines name, with whatever value.
Defined(name) == name \in DOMAIN procEnv

\* The process environment defines name with a Unicode value.
DefinedUnicode(name) == name \in DOMAIN procEnv /\ procEnv[name].unicode

\* C4, as claimed: on success the mapping has exactly the keys of task.env,
\* each with the value of the process environment if it defines the name,
\* and the declared fallback otherwise.
C4_LiveValueWins ==
  (Called /\ CallResult.ok) =>
    /\ DOMAIN CallResult.val = DOMAIN CallTask.env
    /\ \A name \in DOMAIN CallTask.env :
         IF Defined(name)
           THEN Unicode(CallResult.val[name]) = procEnv[name]
           ELSE Some(CallResult.val[name]) = CallTask.env[name]

\* C4, amended: on success the mapping has exactly the keys of task.env, each
\* with the value of the process environment if it defines the name with a
\* Unicode value (the empty string too, and whether or not a fallback is
\* declared), and the declared fallback otherwise.
C4_UnicodeLiveValueWins ==
  (Called /\ CallResult.ok) =>
    /\ DOMAIN CallResult.val = DOMAIN CallTask.env
    /\ \A name \in DOMAIN CallTask.env :
         IF DefinedUnicode(name)
           THEN CallResult.val[name] = procEnv[name].s
           ELSE Some(CallResult.val[name]) = CallTask.env[name]

\* A variable with a fallback took the empty live value, another took its
\* fallback.
C4_Witness ==
  /\ Called /\ CallResult.ok
  /\ \E a, b \in DOMAIN CallTask.env :
       /\ is_some(CallTask.env[a]) /\ DefinedUnicode(a) /\ procEnv[a].s = ""
       /\ CallResult.val[a] = ""
       /\ ~Defined(b) /\ CallResult.val[b] = unwrap(CallTask.env[b])

\* The variables without fallback that the process environment does not
\* define, and those it does not define with a Unicode value.
Undefined == {name \in DOMAIN CallTask.env : CallTask.env[name] = None /\ ~Defined(name)}
Unresolved ==
  {name \in DOMAIN CallTask.env : CallTask.env[name] = None /\ ~DefinedUnicode(name)}

\* The list q holds every name of S once and nothing else.
ListsExactly(q, S) ==
  /\ {q[i] : i \in 1..Len(q)} = S
  /\ Len(q) = Cardinality(S)

\* C5, as claimed: Err exactly when a variable without fallback is not
\* defined in the process environment; the list holds every such name once
\* and no other, and no mapping is returned.
C5_ErrListsUndefined ==
  Called =>
    /\ ~CallResult.ok <=> Undefined # {}
    /\ ~CallResult.ok =>
         /\ ListsExactly(CallResult.err, Undefined)
         /\ DOMAIN CallResult = {"ok", "err"}

\* C5, amended: Err exactly when a variable without fallback is not defined
\* with a Unicode value in the process environment; the list holds every such
\* name once and no other, and no mapping is returned.
C5_ErrListsUnresolved ==
  Called =>
    /\ ~CallResult.ok <=> Unresolved # {}
    /\ ~CallResult.ok =>
         /\ ListsExactly(CallResult.err, Unresolved)
         /\ DOMAIN CallResult = {"ok", "err"}

\* Two required variables were missing, both reported.
C5_Witness ==
  /\ Called /\ ~CallResult.ok
  /\ Len(CallResult.err) = 2
  /\ \E a, b \in DOMAIN CallTask.env : a # b /\ ~Defined(a) /\ ~Defined(b)

====
